---- MODULE Spec2Model ----
(***************************************************************************)
(* Model of src/src/esbuild.ts: readUserPlugins, buildESM and buildCJS.    *)
(*                                                                         *)
(* Strings are sequences of symbols.  A symbol is "/", "." or a run of     *)
(* letters that the program never splits ("dist", "cjs", "index", ...);    *)
(* concatenation puts no separator between symbols, so <<"my","dist">> is  *)
(* the directory name mydist.  String.replace, String.includes, the two    *)
(* regular expressions, path.basename and path.join are computed on these  *)
(* sequences as the JavaScript runtime computes them on characters.        *)
(*                                                                         *)
(* The file system is a function from absolute normalised file paths to    *)
(* file contents; a directory exists when a file lies under it.            *)
(***************************************************************************)
EXTENDS Naturals, Sequences, FiniteSets

VARIABLES
    pluginFile,   \* what package-bundler.plugins.js is on disk
    outDir,       \* argument outDir of both wrappers
    sourcemap,    \* argument sourcemap of both wrappers
    esmEntries,   \* output stems of srcFilesToCompile
    cjsEntries,   \* output stems of cjsFilesToCompile
    fs0,          \* the output directory before the first call
    fs,           \* the file system under the output directory
    pc,           \* position of each wrapper call
    plugins,      \* what readUserPlugins resolved with, per call
    warnings,     \* console.warn calls, per call
    invoked,      \* esbuild.build invocations, per call
    config,       \* the configuration handed to esbuild.build, per call
    outcome,      \* how esbuild.build settled, per call
    built,        \* the files esbuild wrote, per call
    pending,      \* the part of a glob result forEach has not visited yet
    ops,          \* file operations buildCJS has performed after the build
    packageJsonFiles, \* argument packageJsonFiles of buildCJS
    snap          \* the file system and buildESM's position when buildCJS was called

vars == <<pluginFile, outDir, sourcemap, esmEntries, cjsEntries, fs, pc, plugins,
          warnings, invoked, config, outcome, built, pending, ops, packageJsonFiles, fs0,
          snap>>

params == <<pluginFile, outDir, sourcemap, esmEntries, cjsEntries, packageJsonFiles, fs0>>

-----------------------------------------------------------------------------
(* Bounds *)

MaxPlugins == 2     \* longest plugin list a plugin file exports
MaxEntries == 2     \* most entry files handed to buildCJS

-----------------------------------------------------------------------------
(* Strings *)

Slash == "/"
Dot == "."
Backslash == "\\"

DotJs == <<Dot, "js">>
DotCjs == <<Dot, "cjs">>
DotCjsJs == <<Dot, "cjs", Dot, "js">>
DotJsMap == <<Dot, "js", Dot, "map">>

MatchesAt(s, pat, i) ==
    /\ i >= 1
    /\ i + Len(pat) - 1 <= Len(s)
    /\ \A k \in 1..Len(pat) : s[i + k - 1] = pat[k]

\* String.prototype.indexOf, 1-based; 0 when pat does not occur
IndexOf(s, pat) ==
    IF \E i \in 1..(Len(s) + 1) : MatchesAt(s, pat, i)
    THEN CHOOSE i \in 1..(Len(s) + 1) :
            /\ MatchesAt(s, pat, i)
            /\ \A j \in 1..(i - 1) : ~MatchesAt(s, pat, j)
    ELSE 0

Includes(s, pat) == IndexOf(s, pat) # 0

StartsWith(s, pre) == MatchesAt(s, pre, 1)

EndsWith(s, suf) == Len(suf) <= Len(s) /\ MatchesAt(s, suf, Len(s) - Len(suf) + 1)

\* String.prototype.replace with a string pattern: the first occurrence only
ReplaceFirst(s, pat, rep) ==
    LET i == IndexOf(s, pat)
    IN  IF i = 0 THEN s
        ELSE SubSeq(s, 1, i - 1) \o rep \o SubSeq(s, i + Len(pat), Len(s))

\* s.replace(/\.js$/, '.cjs.js')
ReplaceJsSuffix(s) ==
    IF EndsWith(s, DotJs) THEN SubSeq(s, 1, Len(s) - 2) \o DotCjsJs ELSE s

\* s.replace(/(\\|\/)$/, '')
StripTrailingSep(s) ==
    IF Len(s) > 0 /\ s[Len(s)] \in {Slash, Backslash} THEN SubSeq(s, 1, Len(s) - 1) ELSE s

\* s.replace(/^(\/|\\)/, '')
StripLeadingSep(s) ==
    IF Len(s) > 0 /\ s[1] \in {Slash, Backslash} THEN SubSeq(s, 2, Len(s)) ELSE s

\* position of the last "/" of s, 0 when there is none
LastSlash(s) ==
    IF \E i \in 1..Len(s) : s[i] = Slash
    THEN CHOOSE i \in 1..Len(s) : s[i] = Slash /\ \A j \in (i + 1)..Len(s) : s[j] # Slash
    ELSE 0

\* path.basename of a file path
Basename(p) == SubSeq(p, LastSlash(p) + 1, Len(p))

\* the directory part of a file path, without the closing "/"
Dirname(p) == SubSeq(p, 1, LastSlash(p) - 1)

\* the segments of a path between its "/" symbols
RECURSIVE Split(_)
Split(s) ==
    LET i == IndexOf(s, <<Slash>>)
    IN  IF i = 0 THEN <<s>>
        ELSE <<SubSeq(s, 1, i - 1)>> \o Split(SubSeq(s, i + 1, Len(s)))

RECURSIVE JoinSegs(_)
JoinSegs(segs) ==
    IF Len(segs) = 0 THEN <<>>
    ELSE IF Len(segs) = 1 THEN segs[1]
    ELSE segs[1] \o <<Slash>> \o JoinSegs(Tail(segs))

KeepSeg(seg) == seg # <<>> /\ seg # <<Dot>>

\* path.normalize (POSIX) on paths without ".." segments
Normalize(s) ==
    LET segs == SelectSeq(Split(s), KeepSeg)
        abs == Len(s) > 0 /\ s[1] = Slash
        trail == Len(s) > 0 /\ s[Len(s)] = Slash /\ Len(segs) > 0
        body == JoinSegs(segs)
    IN  IF abs \/ Len(body) > 0
        THEN (IF abs THEN <<Slash>> ELSE <<>>) \o body \o (IF trail THEN <<Slash>> ELSE <<>>)
        ELSE <<Dot>>

\* path.join(a, b)
PathJoin(a, b) == Normalize(a \o <<Slash>> \o b)

\* path.join(a, b, c)
PathJoin3(a, b, c) == Normalize(a \o <<Slash>> \o b \o <<Slash>> \o c)

-----------------------------------------------------------------------------
(* JavaScript values of the plugin file's default export *)

Absent == [t |-> "absent", v |-> <<>>]        \* the object has no such key
Undefined == [t |-> "undefined", v |-> <<>>]
Null == [t |-> "null", v |-> <<>>]
Arr(v) == [t |-> "array", v |-> v]

Obj(c, e) == [t |-> "object", cjs |-> c, esm |-> e]
UndefinedExport == [t |-> "undefined", cjs |-> Absent, esm |-> Absent]
NullExport == [t |-> "null", cjs |-> Absent, esm |-> Absent]
StringExport == [t |-> "string", cjs |-> Absent, esm |-> Absent]

\* ToBoolean: arrays (empty ones too), objects and non-empty strings are truthy
Truthy(x) == x.t \in {"array", "object", "string"}

\* x ?? []
OrEmpty(x) == IF x.t = "array" THEN x.v ELSE <<>>

UserPlugin(id) == [id |-> id, packagePath |-> <<>>]

\* nodeExternalsPlugin({ packagePath })
NodeExternalsPlugin(paths) == [id |-> "node-externals", packagePath |-> paths]

DefaultOut == Obj(Arr(<<>>), Arr(<<>>))

Unset == [t |-> "unset", cjs |-> Absent, esm |-> Absent]

\* a shape test that fills in the missing lists of a valid export
ValidateExportMutant(exp) ==
    IF ~Truthy(exp) \/ (~Truthy(exp.cjs) /\ ~Truthy(exp.esm))
    THEN [out |-> DefaultOut, warn |-> TRUE]
    ELSE [out |-> Obj(Arr(OrEmpty(exp.cjs)), Arr(OrEmpty(exp.esm))), warn |-> FALSE]

\* lines 28-34 of readUserPlugins: the shape test on the default export
ValidateExport(exp) ==
    IF ~Truthy(exp) \/ (~Truthy(exp.cjs) /\ ~Truthy(exp.esm))
    THEN [out |-> DefaultOut, warn |-> TRUE]
    ELSE [out |-> exp, warn |-> FALSE]

-----------------------------------------------------------------------------
(* Files *)

NoStr == <<>>

File(kind, of) ==
    [kind |-> kind, of |-> of, main |-> NoStr, module |-> NoStr, name |-> NoStr,
     types |-> NoStr]

\* JSON.stringify(pJsonTemplate, null, 2): the four keys in this order
Stub(main, module, name, types) ==
    [kind |-> "stub", of |-> NoStr, main |-> main, module |-> module, name |-> name,
     types |-> types]

EmptyTree == [p \in {} |-> File("none", NoStr)]

Override(f, g) ==
    [p \in (DOMAIN f) \cup (DOMAIN g) |-> IF p \in DOMAIN g THEN g[p] ELSE f[p]]

Without(f, S) == [p \in (DOMAIN f) \ S |-> f[p]]

Under(p, dir) == StartsWith(p, dir \o <<Slash>>) /\ Len(p) > Len(dir) + 1

RelTo(p, dir) == SubSeq(p, Len(dir) + 2, Len(p))

DirExists(f, dir) == \E p \in DOMAIN f : Under(p, dir)

\* a directory as the file system names it
Root(dir) == StripTrailingSep(Normalize(dir))

\* path.join(outDir, 'cjs')
TmpDir(od) == PathJoin(od, <<"cjs">>)

HasDotSegment(rel) == \E i \in 1..Len(Split(rel)) : StartsWith(Split(rel)[i], <<Dot>>)

\* a glob for '*' + suffix in dir itself, without '**'
GlobMutant(f, dir, suffix) ==
    { p \in DOMAIN f :
        /\ Dirname(p) = Root(dir)
        /\ EndsWith(Basename(p), suffix)
        /\ ~HasDotSegment(RelTo(p, Root(dir))) }

\* glob.sync(path.join(dir, '**', '*' + suffix), { absolute: true, onlyFiles: true })
Glob(f, dir, suffix) ==
    { p \in DOMAIN f :
        /\ Under(p, Root(dir))
        /\ EndsWith(Basename(p), suffix)
        /\ ~HasDotSegment(RelTo(p, Root(dir))) }

MapKind(format) == IF format = "cjs" THEN "cjsmap" ELSE "esmmap"

\* what esbuild.build writes for one entry: <outdir>/<stem>.js and, with
\* sourcemap, <outdir>/<stem>.js.map
BundlerOutput(dir, entries, format, sm) ==
    LET js(e) == PathJoin(dir, e \o DotJs)
        map(e) == PathJoin(dir, e \o DotJsMap)
        paths == { js(e) : e \in entries } \cup (IF sm THEN { map(e) : e \in entries } ELSE {})
    IN  [p \in paths |->
            LET e == CHOOSE x \in entries : p \in {js(x), map(x)}
            IN  File(IF p = js(e) THEN format ELSE MapKind(format), e)]

-----------------------------------------------------------------------------
(* buildCJS after the build: lines 77-104 *)

PackageName == <<"mylib">>
PackageJson == <<"package", Dot, "json">>
IndexDTs == <<"index", Dot, "d", Dot, "ts">>
DistIndexCjsJs == <<"dist", Slash, "index", Dot, "cjs", Dot, "js">>

\* fs.moveSync(src, dst) without overwrite: throws when dst exists
MoveSync(f, src, dst) ==
    IF dst \in DOMAIN f
    THEN [ok |-> FALSE, tree |-> f]
    ELSE [ok |-> TRUE, tree |-> Override(Without(f, {src}), [p \in {dst} |-> f[src]])]

\* cjsFilePath.replace(/\.js$/, '.cjs.js')
RenameTarget(p) == ReplaceJsSuffix(p)

\* the shell's expansion of <tmp>/*: the entries of tmp whose name has no leading dot
CpSources(f, tmp) ==
    { p \in DOMAIN f : Under(p, tmp) /\ ~StartsWith(RelTo(p, tmp), <<Dot>>) }

\* executeCmd(`cp -r ${path.join(outDir, 'cjs', '*')} ${outDir}`)
CpR(f, tmp, od) ==
    LET src == CpSources(f, tmp)
        dst(p) == Normalize(od \o <<Slash>> \o RelTo(p, tmp))
    IN  Override(f, [q \in { dst(p) : p \in src } |->
                        f[CHOOSE p \in src : dst(p) = q]])

\* executeCmd(`rm -rf ${path.join(outDir, 'cjs')}`)
RmRf(f, tmp) == Without(f, { p \in DOMAIN f : Under(p, tmp) })

\* .filter(cjsFilePath => !cjsFilePath.includes('dist/index.cjs.js'))
StubFilter(p) == ~Includes(p, DistIndexCjsJs)

\* path.basename(cjsFilePath)
MainFile(p) == Basename(p)

\* the same without the removal of the trailing separator
SubPackageNameMutant(p, od) ==
    ReplaceFirst(ReplaceFirst(p, od, <<>>), Basename(p), <<>>)

\* cjsFilePath.replace(outDir, '').replace(mainFile, '').replace(/(\\|\/)$/, '')
SubPackageName(p, od) ==
    StripTrailingSep(ReplaceFirst(ReplaceFirst(p, od, <<>>), MainFile(p), <<>>))

\* mainFile.replace('.cjs', '')
ModuleField(main) == ReplaceFirst(main, DotCjs, <<>>)

\* `${packageName}/${packageJsonSubPackageName.replace(/^(\/|\\)/, '')}`
NameField(pkg, sub) == pkg \o <<Slash>> \o StripLeadingSep(sub)

\* pJsonTemplate
Template(pkg, p, od) ==
    Stub(MainFile(p), ModuleField(MainFile(p)), NameField(pkg, SubPackageName(p, od)),
         IndexDTs)

\* path.join(outDir, `.${packageJsonSubPackageName}`, 'package.json')
StubPath(p, od) == PathJoin3(od, <<Dot>> \o SubPackageName(p, od), PackageJson)

\* fs.writeFileSync(path, data): throws ENOENT when the directory does not exist
WriteFileSync(f, path, data) ==
    IF DirExists(f, Dirname(path))
    THEN [ok |-> TRUE, tree |-> Override(f, [p \in {path} |-> data])]
    ELSE [ok |-> FALSE, tree |-> f]

NoData == File("none", NoStr)
Op(op, src, dst, data) == [op |-> op, src |-> src, dst |-> dst, data |-> data]

-----------------------------------------------------------------------------
(* Inputs *)

StemIndex == <<"index">>                                \* index.js
StemTop == <<"feature">>                                \* feature.js
StemFeature == <<"sub", Slash, "feature">>              \* sub/feature.js
StemInfix == <<"sub", Slash, "my", Dot, "cjs", "-shim">> \* sub/my.cjs-shim.js
StemNested == <<"dist", Slash, "index">>                \* dist/index.js
StemCjs == <<"feature", Dot, "cjs">>                    \* feature.cjs.js
Stems == {StemIndex, StemTop, StemFeature, StemInfix, StemNested, StemCjs}

EntrySets == { S \in SUBSET Stems : S # {} /\ Cardinality(S) <= MaxEntries }
EsmEntrySets == { {StemIndex, StemFeature} }

DirDist == <<Slash, "p", Slash, "dist">>
DirOut == <<Slash, "p", Slash, "out">>
DirDistSlash == <<Slash, "p", Slash, "dist", Slash>>
OutDirs == {DirDist, DirOut, DirDistSlash}

\* what the output directory holds before the first call
PreTrees(od) ==
    { EmptyTree, [p \in {PathJoin(od, PackageJson)} |-> File("pre", NoStr)] }

ManifestPaths == { << <<"package", Dot, "json">> >>,
                   << <<"package", Dot, "json">>, <<"web", Slash, "package", Dot, "json">> >> }

PluginIds == {"p1", "p2"}
PluginLists == UNION { [1..k -> { UserPlugin(i) : i \in PluginIds }] : k \in 0..MaxPlugins }
Fields == {Absent, Undefined, Null} \cup { Arr(l) : l \in PluginLists }
Exports == {UndefinedExport, NullExport, StringExport} \cup { Obj(c, e) : c, e \in Fields }

PluginFile(stat, load, exp) == [stat |-> stat, load |-> load, exp |-> exp]
PluginFiles ==
    { PluginFile(st, "ok", UndefinedExport) : st \in {"absent", "eacces", "dir"} }
    \cup { PluginFile("file", "throws", UndefinedExport) }
    \cup { PluginFile("file", "ok", e) : e \in Exports }

BothLists == Obj(Arr(<<UserPlugin("p1")>>), Arr(<<UserPlugin("p2")>>))

Calls == {"esm", "cjs"}

-----------------------------------------------------------------------------
(* readUserPlugins: lines 19-40 *)

\* fs.stat outside the try block: its failure rejects the call
StatStepMutant(pf) ==
    IF pf.stat \in {"absent", "eacces"}
    THEN [next |-> "rejected", out |-> Unset, warn |-> FALSE]
    ELSE IF pf.stat = "file"
    THEN [next |-> "import", out |-> Unset, warn |-> FALSE]
    ELSE [next |-> "build", out |-> DefaultOut, warn |-> FALSE]

\* lines 22-24 and 36-39: fs.stat and stat.isFile()
StatStep(pf) ==
    IF pf.stat \in {"absent", "eacces"}
    THEN [next |-> "build", out |-> DefaultOut, warn |-> TRUE]
    ELSE IF pf.stat = "file"
    THEN [next |-> "import", out |-> Unset, warn |-> FALSE]
    ELSE [next |-> "build", out |-> DefaultOut, warn |-> FALSE]

\* lines 25-34 and 36-39: import(pluginFilePath) and the shape test
ImportStep(pf) ==
    IF pf.load = "throws"
    THEN [out |-> DefaultOut, warn |-> TRUE]
    ELSE ValidateExport(pf.exp)

\* reading a property: a missing key reads as undefined
Read(field) == IF field.t = "absent" THEN Undefined ELSE field

\* line 50: (await readUserPlugins()).esm
EsmPlugins(up) == Read(up.esm)

\* the user's plugins spread before the externalization plugin
CjsPluginsMutant(up, paths) == Arr(OrEmpty(up.cjs) \o <<NodeExternalsPlugin(paths)>>)

\* lines 70-75: [nodeExternalsPlugin({ packagePath }), ...(userPlugins.cjs ?? [])]
CjsPlugins(up, paths) == Arr(<<NodeExternalsPlugin(paths)>> \o OrEmpty(up.cjs))

NoConfig ==
    [format |-> "none", bundle |-> FALSE, outdir |-> NoStr, sourcemap |-> FALSE,
     plugins |-> Undefined]

-----------------------------------------------------------------------------
(* The state machine *)

InitCalls ==
    /\ pc = [c \in Calls |-> "idle"]
    /\ plugins = [c \in Calls |-> Unset]
    /\ warnings = [c \in Calls |-> 0]
    /\ invoked = [c \in Calls |-> 0]
    /\ config = [c \in Calls |-> NoConfig]
    /\ outcome = [c \in Calls |-> "none"]
    /\ built = [c \in Calls |-> {}]
    /\ pending = {}
    /\ ops = {}
    /\ snap = [tree |-> fs, esm |-> "idle"]

\* every directory layout, one plugin file
Init ==
    /\ pluginFile = PluginFile("file", "ok", BothLists)
    /\ outDir \in OutDirs
    /\ sourcemap \in BOOLEAN
    /\ esmEntries \in EsmEntrySets
    /\ cjsEntries \in EntrySets
    /\ packageJsonFiles = << <<"package", Dot, "json">> >>
    /\ fs0 \in PreTrees(outDir)
    /\ fs = fs0
    /\ InitCalls

\* every plugin file, one directory layout
InitPlugins ==
    /\ pluginFile \in PluginFiles
    /\ outDir = DirDist
    /\ sourcemap = FALSE
    /\ esmEntries = {StemFeature}
    /\ cjsEntries = {StemFeature}
    /\ packageJsonFiles \in ManifestPaths
    /\ fs0 = EmptyTree
    /\ fs = fs0
    /\ InitCalls

\* a caller invokes buildESM or buildCJS
Call(c) ==
    /\ pc[c] = "idle"
    /\ pc' = [pc EXCEPT ![c] = "stat"]
    /\ snap' = IF c = "cjs" THEN [tree |-> fs, esm |-> pc["esm"]] ELSE snap
    /\ UNCHANGED <<params, fs, plugins, warnings, invoked, config, outcome, built, pending, ops>>

\* readUserPlugins up to the await of fs.stat
Stat(c) ==
    /\ pc[c] = "stat"
    /\ LET r == StatStep(pluginFile)
       IN  /\ pc' = [pc EXCEPT ![c] = r.next]
           /\ plugins' = [plugins EXCEPT ![c] = r.out]
           /\ warnings' = [warnings EXCEPT ![c] = @ + (IF r.warn THEN 1 ELSE 0)]
    /\ UNCHANGED <<params, fs, invoked, config, outcome, built, pending, ops, snap>>

\* readUserPlugins from the await of import() to its return
Import(c) ==
    /\ pc[c] = "import"
    /\ LET r == ImportStep(pluginFile)
       IN  /\ pc' = [pc EXCEPT ![c] = "build"]
           /\ plugins' = [plugins EXCEPT ![c] = r.out]
           /\ warnings' = [warnings EXCEPT ![c] = @ + (IF r.warn THEN 1 ELSE 0)]
    /\ UNCHANGED <<params, fs, invoked, config, outcome, built, pending, ops, snap>>

\* a rejected esbuild.build that is caught and ignored
AfterBuildMutant(c, ok) == IF c = "cjs" THEN "glob" ELSE "done"

\* where a wrapper goes when esbuild.build settles
AfterBuild(c, ok) ==
    IF ~ok THEN "rejected" ELSE IF c = "cjs" THEN "glob" ELSE "done"

\* buildESM lines 43-51: esbuild.build, which resolves or rejects
EsmBuild ==
    /\ pc["esm"] = "build"
    /\ invoked' = [invoked EXCEPT !["esm"] = @ + 1]
    /\ config' = [config EXCEPT !["esm"] =
                    [format |-> "esm", bundle |-> FALSE, outdir |-> outDir,
                     sourcemap |-> sourcemap, plugins |-> EsmPlugins(plugins["esm"])]]
    /\ \E ok \in BOOLEAN :
         LET out == IF ok THEN BundlerOutput(outDir, esmEntries, "esm", sourcemap)
                    ELSE EmptyTree
         IN  /\ fs' = Override(fs, out)
             /\ outcome' = [outcome EXCEPT !["esm"] = IF ok THEN "resolved" ELSE "failed"]
             /\ built' = [built EXCEPT !["esm"] = DOMAIN out]
             /\ pc' = [pc EXCEPT !["esm"] = AfterBuild("esm", ok)]
    /\ UNCHANGED <<params, plugins, warnings, pending, ops, snap>>

\* buildCJS lines 62-76: esbuild.build into <outDir>/cjs
CjsBuild ==
    /\ pc["cjs"] = "build"
    /\ invoked' = [invoked EXCEPT !["cjs"] = @ + 1]
    /\ config' = [config EXCEPT !["cjs"] =
                    [format |-> "cjs", bundle |-> TRUE, outdir |-> TmpDir(outDir),
                     sourcemap |-> sourcemap,
                     plugins |-> CjsPlugins(plugins["cjs"], packageJsonFiles)]]
    /\ \E ok \in BOOLEAN :
         LET out == IF ok THEN BundlerOutput(TmpDir(outDir), cjsEntries, "cjs", sourcemap)
                    ELSE EmptyTree
         IN  /\ fs' = Override(fs, out)
             /\ outcome' = [outcome EXCEPT !["cjs"] = IF ok THEN "resolved" ELSE "failed"]
             /\ built' = [built EXCEPT !["cjs"] = DOMAIN out]
             /\ pc' = [pc EXCEPT !["cjs"] = AfterBuild("cjs", ok)]
    /\ UNCHANGED <<params, plugins, warnings, pending, ops, snap>>

\* line 77: the glob of the compiled files
CjsGlob ==
    /\ pc["cjs"] = "glob"
    /\ pending' = Glob(fs, TmpDir(outDir), DotJs)
    /\ pc' = [pc EXCEPT !["cjs"] = "rename"]
    /\ UNCHANGED <<params, fs, plugins, warnings, invoked, config, outcome, built, ops, snap>>

\* lines 78-80: one turn of the forEach, in the order the glob listed the files
CjsMove ==
    /\ pc["cjs"] = "rename"
    /\ \E p \in pending :
         LET r == MoveSync(fs, p, RenameTarget(p))
         IN  /\ fs' = r.tree
             /\ pending' = IF r.ok THEN pending \ {p} ELSE {}
             /\ ops' = IF r.ok THEN ops \cup {Op("move", p, RenameTarget(p), NoData)} ELSE ops
             /\ pc' = [pc EXCEPT !["cjs"] = IF r.ok THEN "rename" ELSE "rejected"]
    /\ UNCHANGED <<params, plugins, warnings, invoked, config, outcome, built, snap>>

\* line 82: the recursive copy, once the forEach is over
CjsCopy ==
    /\ pc["cjs"] = "rename"
    /\ pending = {}
    /\ fs' = CpR(fs, TmpDir(outDir), outDir)
    /\ ops' = ops \cup {Op("cp", TmpDir(outDir), outDir, NoData)}
    /\ pc' = [pc EXCEPT !["cjs"] = "remove"]
    /\ UNCHANGED <<params, plugins, warnings, invoked, config, outcome, built, pending, snap>>

\* line 83: the removal of <outDir>/cjs
CjsRemove ==
    /\ pc["cjs"] = "remove"
    /\ fs' = RmRf(fs, TmpDir(outDir))
    /\ ops' = ops \cup {Op("rm", TmpDir(outDir), NoStr, NoData)}
    /\ pc' = [pc EXCEPT !["cjs"] = "globout"]
    /\ UNCHANGED <<params, plugins, warnings, invoked, config, outcome, built, pending, snap>>

\* lines 84-86: the glob of the .cjs.js files and its filter
StubList(f, od) == { p \in Glob(f, od, DotCjsJs) : StubFilter(p) }

CjsGlobOut ==
    /\ pc["cjs"] = "globout"
    /\ pending' = StubList(fs, outDir)
    /\ pc' = [pc EXCEPT !["cjs"] = IF pending' = {} THEN "done" ELSE "stubs"]
    /\ UNCHANGED <<params, fs, plugins, warnings, invoked, config, outcome, built, ops, snap>>

\* lines 87-104: one turn of the forEach that writes the manifest stubs
CjsStub ==
    /\ pc["cjs"] = "stubs"
    /\ \E p \in pending :
         LET r == WriteFileSync(fs, StubPath(p, outDir), Template(PackageName, p, outDir))
         IN  /\ fs' = r.tree
             /\ pending' = IF r.ok THEN pending \ {p} ELSE {}
             /\ ops' = IF r.ok
                       THEN ops \cup {Op("write", p, StubPath(p, outDir),
                                         Template(PackageName, p, outDir))}
                       ELSE ops
             /\ pc' = [pc EXCEPT !["cjs"] =
                         IF ~r.ok THEN "rejected"
                         ELSE IF pending' = {} THEN "done" ELSE "stubs"]
    /\ UNCHANGED <<params, plugins, warnings, invoked, config, outcome, built, snap>>

Next ==
    \/ \E c \in Calls : Call(c)
    \/ \E c \in Calls : Stat(c)
    \/ \E c \in Calls : Import(c)
    \/ EsmBuild
    \/ CjsBuild
    \/ CjsGlob
    \/ CjsMove
    \/ CjsCopy
    \/ CjsRemove
    \/ CjsGlobOut
    \/ CjsStub

Spec == Init /\ [][Next]_vars

SpecPlugins == InitPlugins /\ [][Next]_vars

-----------------------------------------------------------------------------
(* Vocabulary of the properties *)

EmptyBundle == [t |-> "object", cjs |-> Arr(<<>>), esm |-> Arr(<<>>)]

\* readUserPlugins has returned in call c
Returned(c) == pc[c] \notin {"idle", "stat", "import"}

\* the plugin file is a regular file and import() resolved
LoadedOk == pluginFile.stat = "file" /\ pluginFile.load = "ok"

\* the key is there with a value other than undefined
HasKey(f) == f.t \notin {"absent", "undefined"}

IsList(f) == f.t = "array"

Usable(e) == e.t = "object" /\ (IsList(e.cjs) \/ IsList(e.esm))

OutRoot == IF outDir[Len(outDir)] = Slash THEN SubSeq(outDir, 1, Len(outDir) - 1) ELSE outDir
OutTmp == OutRoot \o <<Slash, "cjs">>

WriteOps == { w \in ops : w.op = "write" }
MoveOps == { m \in ops : m.op = "move" }

\* the directory of a file of the output tree, relative to the output root
SubPath(p) ==
    LET rel == SubSeq(p, Len(OutRoot) + 2, Len(p))
    IN  SubSeq(rel, 1, LastSlash(rel) - 1)

RelOut(p) == SubSeq(p, Len(OutRoot) + 2, Len(p))
RelTmp(p) == SubSeq(p, Len(OutTmp) + 2, Len(p))

\* s without its last n symbols
DropLast(s, n) == SubSeq(s, 1, Len(s) - n)

BothDone == pc["esm"] = "done" /\ pc["cjs"] = "done"

-----------------------------------------------------------------------------
(* C1: readUserPlugins never rejects.  Whenever the plugin file is absent, *)
(* is not a regular file, cannot be stat'ed or cannot be imported, the     *)
(* call resolves with { cjs: [], esm: [] }; a wrapper is rejected only     *)
(* after it invoked the bundler, and once readUserPlugins has returned the *)
(* wrapper is about to invoke the bundler or has invoked it.               *)
C1_NeverRejects ==
    \A c \in Calls :
        /\ pc[c] = "rejected" => invoked[c] = 1
        /\ (Returned(c) /\ ~LoadedOk) => plugins[c] = EmptyBundle
        /\ Returned(c) => (pc[c] = "build" \/ invoked[c] = 1)

C1_Witness ==
    /\ pluginFile.stat = "file"
    /\ pluginFile.load = "throws"
    /\ invoked["esm"] = 1
    /\ invoked["cjs"] = 1
    /\ plugins["cjs"] = EmptyBundle

(* C2 as stated: when the file loads, an export that is defined and has a  *)
(* cjs or an esm key comes back verbatim and without a warning; any other  *)
(* export gives one warning and { cjs: [], esm: [] }.                      *)
C2_Original ==
    \A c \in Calls :
        (Returned(c) /\ LoadedOk) =>
            IF pluginFile.exp.t = "object"
               /\ (HasKey(pluginFile.exp.cjs) \/ HasKey(pluginFile.exp.esm))
            THEN plugins[c] = pluginFile.exp /\ warnings[c] = 0
            ELSE plugins[c] = EmptyBundle /\ warnings[c] = 1

(* C2 amended: when the file loads, the export comes back verbatim and     *)
(* without a warning exactly when it is an object whose cjs or esm value   *)
(* is truthy (an array, empty or not); a falsy export, or one whose cjs    *)
(* and esm are both missing, undefined or null, gives one warning and      *)
(* { cjs: [], esm: [] }.                                                   *)
C2_VerbatimWhenTruthy ==
    \A c \in Calls :
        (Returned(c) /\ LoadedOk) =>
            IF Usable(pluginFile.exp)
            THEN plugins[c] = pluginFile.exp /\ warnings[c] = 0
            ELSE plugins[c] = EmptyBundle /\ warnings[c] = 1

C2_Witness ==
    /\ LoadedOk
    /\ pluginFile.exp.cjs = Arr(<<UserPlugin("p1")>>)
    /\ pluginFile.exp.esm = Absent
    /\ Returned("cjs")
    /\ plugins["cjs"].esm = Absent
    /\ plugins["cjs"].cjs = Arr(<<UserPlugin("p1")>>)

\* the cjs list of the plugin file, empty when the file gives none
LoadedCjsList ==
    IF LoadedOk /\ Usable(pluginFile.exp) /\ IsList(pluginFile.exp.cjs)
    THEN pluginFile.exp.cjs.v
    ELSE <<>>

\* the esm value of the bundle the plugin file gives
LoadedEsmValue ==
    IF LoadedOk /\ Usable(pluginFile.exp)
    THEN (IF pluginFile.exp.esm.t = "absent" THEN Undefined ELSE pluginFile.exp.esm)
    ELSE Arr(<<>>)

(* C8: buildCJS hands the bundler the externalization plugin, configured   *)
(* with packageJsonFiles, followed by the user's cjs plugins in their      *)
(* order, and the externalization plugin alone when the loaded bundle has  *)
(* no cjs list; buildESM hands over the loaded esm value and never the     *)
(* externalization plugin.                                                 *)
C8_PluginLists ==
    /\ invoked["cjs"] = 1 =>
          /\ config["cjs"].plugins.t = "array"
          /\ config["cjs"].plugins.v =
                <<[id |-> "node-externals", packagePath |-> packageJsonFiles]>>
                \o LoadedCjsList
    /\ invoked["esm"] = 1 =>
          /\ config["esm"].plugins = LoadedEsmValue
          /\ \A i \in 1..Len(config["esm"].plugins.v) :
                config["esm"].plugins.v[i].id # "node-externals"

C8_Witness ==
    /\ invoked["cjs"] = 1
    /\ invoked["esm"] = 1
    /\ Len(packageJsonFiles) = 2
    /\ config["cjs"].plugins.v =
          <<NodeExternalsPlugin(packageJsonFiles), UserPlugin("p2"), UserPlugin("p1")>>
    /\ config["esm"].plugins = Arr(<<UserPlugin("p1")>>)

(* C6: a wrapper invokes the bundler at most once; when the invocation     *)
(* fails the wrapper is rejected, and buildCJS has renamed, copied,        *)
(* removed and written nothing, so no manifest stub exists.                *)
C6_FailedBuildStops ==
    \A c \in Calls :
        /\ invoked[c] <= 1
        /\ outcome[c] = "failed" =>
              /\ pc[c] = "rejected"
              /\ c = "cjs" => (ops = {} /\ \A p \in DOMAIN fs : fs[p].kind # "stub")

C6_Witness ==
    /\ outcome["cjs"] = "failed"
    /\ pc["cjs"] = "rejected"
    /\ pc["esm"] = "done"
    /\ invoked["cjs"] = 1

\* the .cjs.js path under the output root for a .js path under <outDir>/cjs
CjsTwin(p) == OutRoot \o <<Slash>> \o DropLast(RelTmp(p), 2) \o DotCjsJs

(* C3: once buildCJS is done, every .js file the bundler wrote under       *)
(* <outDir>/cjs has its content in the .cjs.js file at the same relative   *)
(* position under <outDir>, and no file is left under <outDir>/cjs.        *)
C3_RenamedAndMoved ==
    pc["cjs"] = "done" =>
        /\ \A p \in built["cjs"] :
              EndsWith(p, DotJs) =>
                 /\ CjsTwin(p) \in DOMAIN fs
                 /\ fs[CjsTwin(p)].kind = "cjs"
                 /\ OutTmp \o <<Slash>> \o fs[CjsTwin(p)].of \o DotJs = p
        /\ \A p \in DOMAIN fs : ~StartsWith(p, OutTmp \o <<Slash>>)

C3_Witness ==
    /\ BothDone
    /\ sourcemap
    /\ cjsEntries = {StemIndex, StemFeature}
    /\ OutRoot \o <<Slash, "sub", Slash, "feature", Dot, "cjs", Dot, "js">> \in DOMAIN fs

\* the stub of sub/feature.cjs.js in package mylib
FeatureStub ==
    [kind |-> "stub", of |-> <<>>,
     main |-> <<"feature", Dot, "cjs", Dot, "js">>,
     module |-> <<"feature", Dot, "js">>,
     name |-> <<"mylib", Slash, "sub">>,
     types |-> <<"index", Dot, "d", Dot, "ts">>]

\* the content of a written stub, against the path of its compiled file
StubContentOk(w) ==
    /\ w.data.name = PackageName \o <<Slash>> \o SubPath(w.src)
    /\ w.data.main = SubSeq(w.src, LastSlash(w.src) + 1, Len(w.src))
    /\ w.data.types = <<"index", Dot, "d", Dot, "ts">>
    /\ w.dst \in DOMAIN fs
    /\ RelOut(w.src) = <<"sub", Slash, "feature", Dot, "cjs", Dot, "js">> =>
          w.data = FeatureStub

(* C4 as stated: the stub written for a file of subpackage P is named      *)
(* <packageName>/P and lies at <outDir>/.P/package.json; for               *)
(* sub/feature.cjs.js of mylib it is { main: feature.cjs.js, module:       *)
(* feature.js, name: mylib/sub, types: index.d.ts }.                       *)
C4_Original ==
    \A w \in WriteOps :
        SubPath(w.src) # <<>> =>
            /\ StubContentOk(w)
            /\ w.dst = OutRoot \o <<Slash, Dot>> \o SubPath(w.src) \o <<Slash>> \o PackageJson

(* C4 amended: for an output directory given without a trailing separator, *)
(* the stub written for a file of a non-empty subpackage path P is named   *)
(* <packageName>/P and lies at <outDir>/P/package.json, beside the file;   *)
(* for sub/feature.cjs.js of mylib it is { main: feature.cjs.js, module:   *)
(* feature.js, name: mylib/sub, types: index.d.ts }.                       *)
C4_StubBesideFile ==
    outDir = OutRoot =>
        \A w \in WriteOps :
            SubPath(w.src) # <<>> =>
                /\ StubContentOk(w)
                /\ w.dst = OutRoot \o <<Slash>> \o SubPath(w.src) \o <<Slash>> \o PackageJson

C4_Witness ==
    /\ outDir = DirDist
    /\ pc["cjs"] = "done"
    /\ \E w \in WriteOps :
          /\ RelOut(w.src) = <<"sub", Slash, "feature", Dot, "cjs", Dot, "js">>
          /\ fs[w.dst] = FeatureStub

\* the index.cjs.js directly in the output root
TopIndex == OutRoot \o <<Slash, "index", Dot, "cjs", Dot, "js">>

(* C5: once buildCJS is done, a stub was written for every .cjs.js file of *)
(* the output tree but the index.cjs.js directly in the output root, and   *)
(* none for that one, whatever the output directory is.                    *)
C5_OnlyTopIndexExcluded ==
    pc["cjs"] = "done" =>
        \A p \in DOMAIN fs :
            (StartsWith(p, OutRoot \o <<Slash>>) /\ EndsWith(p, DotCjsJs)) =>
                ((p # TopIndex) <=> (\E w \in WriteOps : w.src = p))

(* C10: every file the CJS build produced as N.js is renamed to N.cjs.js,  *)
(* and the stub written for it has main = N.cjs.js and module = N.js.      *)
C10_ModuleIsOldName ==
    /\ \A m \in MoveOps :
          /\ EndsWith(m.src, DotJs)
          /\ m.dst = DropLast(m.src, 2) \o DotCjsJs
    /\ \A w \in WriteOps : \A m \in MoveOps :
          RelTmp(m.dst) = RelOut(w.src) =>
              /\ w.data.main = SubSeq(m.dst, LastSlash(m.dst) + 1, Len(m.dst))
              /\ w.data.module = SubSeq(m.src, LastSlash(m.src) + 1, Len(m.src))

\* the tree after every file of S got its .cjs.js name
RenameAll(f, S) ==
    Override(Without(f, S),
             [q \in { RenameTarget(p) : p \in S } |->
                 f[CHOOSE p \in S : RenameTarget(p) = q]])

\* the tree buildESM followed by buildCJS leaves, both builds succeeding
EsmThenCjs ==
    LET t1 == Override(fs0, BundlerOutput(outDir, esmEntries, "esm", sourcemap))
        t2 == Override(t1, BundlerOutput(TmpDir(outDir), cjsEntries, "cjs", sourcemap))
        t3 == RenameAll(t2, Glob(t2, TmpDir(outDir), DotJs))
    IN  RmRf(CpR(t3, TmpDir(outDir), outDir), TmpDir(outDir))

\* the compiled files and source maps of a tree
Compiled(f) ==
    [p \in { q \in DOMAIN f : f[q].kind \in {"esm", "esmmap", "cjs", "cjsmap"} } |-> f[p]]

(* C7: when both wrappers are done, the compiled files and source maps of  *)
(* the output tree are those that buildESM followed by buildCJS leaves,    *)
(* whatever the order or interleaving of the two calls was.                *)
C7_OrderIndependent == BothDone => Compiled(fs) = Compiled(EsmThenCjs)

(* C9: once buildCJS is done, and buildESM did not run during it, every    *)
(* file that was in the output directory outside <outDir>/cjs when         *)
(* buildCJS was called is still there with the same content, and the       *)
(* files added are compiled CJS files, their source maps and stubs.        *)
C9_Frame ==
    (pc["cjs"] = "done" /\ (pc["esm"] = "idle" \/ snap.esm \in {"done", "rejected"})) =>
        /\ \A p \in DOMAIN snap.tree :
              ~StartsWith(p, OutTmp \o <<Slash>>) => (p \in DOMAIN fs /\ fs[p] = snap.tree[p])
        /\ \A p \in (DOMAIN fs) \ (DOMAIN snap.tree) :
              fs[p].kind \in {"cjs", "cjsmap", "stub"}

====
